---- MODULE Spec2Model ----
(***************************************************************************)
(* Model of the library catalog: library.py (Book / EBook / AudioBook,     *)
(* normalize_isbn, Library) and api.py (the HTTP handlers).                *)
(*                                                                         *)
(* Python values are tagged tuples: <<"str", s>>, <<"int", n>>,            *)
(* <<"NoneType">>.  An ISBN is a str whose payload is a sequence of        *)
(* one-character strings, so that normalize_isbn and len() are computed.   *)
(* A book object is its __dict__: a record whose fields depend on the      *)
(* variant.  The persisted file holds JSON values, tagged <<"string", s>>, *)
(* <<"number", n>>, <<"null">>.                                            *)
(***************************************************************************)
EXTENDS Integers, Sequences, FiniteSets, TLC

VARIABLES books, file, last

vars == <<books, file, last>>

----------------------------------------------------------------------------
(* Bounds *)

\* Largest catalog the operations are allowed to grow to.
MaxBooks == 3

----------------------------------------------------------------------------
(* Python values *)

None == <<"NoneType">>

PyStr(s) == <<"str", s>>

PyInt(n) == <<"int", n>>

\* a dict, or a reference to an object, next to None
PyDict(d) == <<"dict", d>>

PyObject(o) == <<"object", o>>

IsNone(v) == v[1] = "NoneType"

\* len(s) for a str made of characters
PyLen(s) == Len(s[2])

\* str.replace(ch, "") for a one-character ch
Replace(s, ch) == PyStr(SelectSeq(s[2], LAMBDA c : c # ch))

\* a comparison of the kind name that forgets lower()
LowerForgotten(s) == s

\* str.lower() on the kind names the callers use
Lower(s) ==
    CASE s = PyStr("Book")      -> PyStr("book")
      [] s = PyStr("EBook")     -> PyStr("ebook")
      [] s = PyStr("AudioBook") -> PyStr("audiobook")
      [] s = PyStr("Ebook")     -> PyStr("ebook")
      [] OTHER                  -> s

----------------------------------------------------------------------------
(* library.py: the book classes *)

Book(title, author, isbn, publication_year) ==
    [title |-> title, author |-> author, isbn |-> isbn,
     publication_year |-> publication_year, book_type |-> PyStr("Book")]

EBook(title, author, isbn, publication_year, file_format) ==
    [title |-> title, author |-> author, isbn |-> isbn,
     publication_year |-> publication_year, book_type |-> PyStr("EBook"),
     file_format |-> file_format]

AudioBook(title, author, isbn, publication_year, duration_min) ==
    [title |-> title, author |-> author, isbn |-> isbn,
     publication_year |-> publication_year, book_type |-> PyStr("AudioBook"),
     duration_min |-> duration_min]

----------------------------------------------------------------------------
(* library.py: normalize_isbn *)

normalize_isbn(isbn) == Replace(Replace(isbn, "-"), " ")

\* a length check that lets a 7-character ISBN through
IsbnLengthsWithSeven == {7, 10, 13}

\* the lengths add_book_by_isbn and POST /books accept
IsbnLengths == {10, 13}

----------------------------------------------------------------------------
(* library.py: Library.find_book, as the index of the first match (0 when  *)
(* it returns None)                                                         *)

\* find_book comparing the stored ISBN as written, not normalized
FindIndexRaw(bs, isbn) ==
    LET clean_isbn == normalize_isbn(isbn)
        hits == {i \in 1..Len(bs) : bs[i].isbn = clean_isbn}
    IN  IF hits = {} THEN 0
        ELSE CHOOSE i \in hits : \A j \in hits : i <= j

FindIndex(bs, isbn) ==
    LET clean_isbn == normalize_isbn(isbn)
        hits == {i \in 1..Len(bs) : normalize_isbn(bs[i].isbn) = clean_isbn}
    IN  IF hits = {} THEN 0
        ELSE CHOOSE i \in hits : \A j \in hits : i <= j

find_book(bs, isbn) ==
    LET i == FindIndex(bs, isbn) IN IF i = 0 THEN None ELSE PyObject(bs[i])

\* truth value of what find_book returns (a Book object is truthy)
Found(bs, isbn) == FindIndex(bs, isbn) # 0

----------------------------------------------------------------------------
(* library.py: Library.save_books / Library.load_books                      *)

\* json.dump writing None as the text "None"
JsonDumpNoneAsText(v) ==
    CASE v[1] = "NoneType" -> <<"string", "None">>
      [] v[1] = "int"      -> <<"number", v[2]>>
      [] v[1] = "str"      -> <<"string", v[2]>>

\* json.dump of one Python value
JsonDump(v) ==
    CASE v[1] = "NoneType" -> <<"null">>
      [] v[1] = "int"      -> <<"number", v[2]>>
      [] v[1] = "str"      -> <<"string", v[2]>>

\* json.load of one JSON value
JsonLoad(j) ==
    CASE j[1] = "null"   -> None
      [] j[1] = "number" -> PyInt(j[2])
      [] j[1] = "string" -> PyStr(j[2])

\* a dump that writes the ISBN normalized instead of as stored
DumpBookNormalized(book) ==
    [k \in DOMAIN book |->
        JsonDump(IF k = "isbn" THEN normalize_isbn(book[k]) ELSE book[k])]

\* book.__dict__ written as a JSON object
DumpBook(book) == [k \in DOMAIN book |-> JsonDump(book[k])]

\* the file save_books leaves behind
save_books(bs) ==
    [exists |-> TRUE, data |-> [i \in 1..Len(bs) |-> DumpBook(bs[i])]]

\* item.get("book_type")
ItemGet(item, key) ==
    IF key \in DOMAIN item THEN JsonLoad(item[key]) ELSE None

LoadItem(item) ==
    IF ItemGet(item, "book_type") = PyStr("EBook")
    THEN EBook(JsonLoad(item["title"]), JsonLoad(item["author"]),
               JsonLoad(item["isbn"]), JsonLoad(item["publication_year"]),
               JsonLoad(item["file_format"]))
    ELSE IF ItemGet(item, "book_type") = PyStr("AudioBook")
    THEN AudioBook(JsonLoad(item["title"]), JsonLoad(item["author"]),
                   JsonLoad(item["isbn"]), JsonLoad(item["publication_year"]),
                   JsonLoad(item["duration_min"]))
    ELSE Book(JsonLoad(item["title"]), JsonLoad(item["author"]),
              JsonLoad(item["isbn"]), JsonLoad(item["publication_year"]))

\* the catalog load_books builds from a file (FileNotFoundError: empty)
load_books(f) ==
    IF f.exists
    THEN [i \in 1..Len(f.data) |-> LoadItem(f.data[i])]
    ELSE <<>>

FileMissing == [exists |-> FALSE, data |-> <<>>]

----------------------------------------------------------------------------
(* Inputs: ISBN strings in several formattings *)

Digits(d, n) == [i \in 1..n |-> d]

\* s with the separator ch inserted after its first k characters
Sep(s, k, ch) ==
    PyStr(SubSeq(s[2], 1, k) \o <<ch>> \o SubSeq(s[2], k + 1, Len(s[2])))

A10 == PyStr(Digits("1", 10))

B10 == PyStr(Digits("2", 10))

A13 == PyStr(Digits("1", 13))

Short7 == PyStr(Digits("1", 7))

Nine == PyStr(Digits("2", 9))

A10Hyphen == Sep(A10, 3, "-")

A10Mixed == Sep(Sep(A10, 3, "-"), 1, " ")

A13Hyphen == Sep(A13, 3, "-")

NineHyphen == Sep(Nine, 1, "-")

\* the ISBN arguments of the Library methods
IsbnInputs == {A10, A10Mixed, B10, A13Hyphen, Short7}

\* the ISBNs of the HTTP requests
RequestIsbns == {A10, A10Hyphen, B10, A13, A13Hyphen, Short7, NineHyphen}

----------------------------------------------------------------------------
(* The Open Library service as fetch_book_from_api sees it: the request    *)
(* fails, or answers a document list                                        *)

FullDoc ==
    [title |-> PyStr("Dune"), author_name |-> <<"Frank Herbert">>,
     first_publish_year |-> PyInt(1965)]

TwoAuthorDoc ==
    [title |-> PyStr("Good Omens"), author_name |-> <<"Pratchett", "Gaiman">>,
     first_publish_year |-> PyInt(1990)]

SparseDoc == [key |-> PyStr("/works/OL1W")]

\* what the service holds for a normalized ISBN
Docs(clean_isbn) ==
    CASE clean_isbn = A10 -> <<FullDoc>>
      [] clean_isbn = B10 -> <<SparseDoc>>
      [] clean_isbn = A13 -> <<TwoAuthorDoc, FullDoc>>
      [] OTHER            -> <<>>

Responses(clean_isbn) ==
    {[kind |-> "RequestError"], [kind |-> "HTTPStatusError"],
     [kind |-> "Exception"],
     [kind |-> "ok", docs |-> <<>>],
     [kind |-> "ok", docs |-> Docs(clean_isbn)]}

\* dict.get(key, default)
DictGet(d, key, default) == IF key \in DOMAIN d THEN d[key] ELSE default

\* ", ".join(names)
RECURSIVE Join(_)
Join(names) ==
    IF Len(names) = 1 THEN names[1]
    ELSE names[1] \o ", " \o Join(Tail(names))

\* library.py: Library.fetch_book_from_api, given the service's response
fetch_book_from_api(isbn, response) ==
    LET clean_isbn == normalize_isbn(isbn) IN
    IF response.kind # "ok" THEN None
    ELSE IF response.docs = <<>> THEN None
    ELSE LET book_info    == response.docs[1]
             title        == DictGet(book_info, "title", PyStr("Unknown Title"))
             author_names == DictGet(book_info, "author_name", <<>>)
             author       == IF author_names # <<>>
                             THEN PyStr(Join(author_names))
                             ELSE PyStr("Unknown Author")
             publication_year == DictGet(book_info, "first_publish_year", None)
         IN  PyDict([title |-> title, author |-> author, isbn |-> clean_isbn,
                     publication_year |-> publication_year])

----------------------------------------------------------------------------
(* Inputs: kinds, keyword arguments, books handed to add_book, files found *)
(* at construction                                                          *)

NoKwargs == [k \in {} |-> None]

\* the (book_type, **kwargs) pairs add_book_by_isbn is called with
KindCalls ==
    {[book_type |-> PyStr("Book"),      kwargs |-> NoKwargs],
     [book_type |-> PyStr("ebook"),     kwargs |-> [file_format |-> PyStr("EPUB")]],
     [book_type |-> PyStr("EBook"),     kwargs |-> NoKwargs],
     [book_type |-> PyStr("audiobook"), kwargs |-> [duration_min |-> PyInt(90)]],
     [book_type |-> PyStr("AudioBook"), kwargs |-> NoKwargs]}

Shining == Book(PyStr("Shining"), PyStr("Stephen King"), A10Hyphen, PyInt(2011))

LongEbook == EBook(PyStr("Long Ebook"), PyStr("Author B"), B10, PyInt(2021), PyStr("pdf"))

HailMary ==
    AudioBook(PyStr("Project Hail Mary"), PyStr("Andy Weir"), Sep(A13, 3, " "),
              PyInt(2021), PyInt(930))

BookInputs == {Shining, LongEbook, HailMary}

\* a file written before records carried a book_type
LegacyFile ==
    [exists |-> TRUE,
     data |-> << [title |-> <<"string", "Great Book">>,
                  author |-> <<"string", "Author A">>,
                  isbn |-> <<"string", B10[2]>>,
                  publication_year |-> <<"number", 2020>>] >>]

InitialFiles ==
    {FileMissing, LegacyFile, save_books(<<Shining>>), save_books(<<LongEbook, HailMary>>)}

----------------------------------------------------------------------------
(* library.py: the Library methods, as functions of the catalog *)

\* kwargs.get(key)
KwargsGet(kwargs, key) == IF key \in DOMAIN kwargs THEN kwargs[key] ELSE None

\* a lookup failure that rewrites the file before giving up
LookupFailedSaves(bs) ==
    [ret |-> FALSE, books |-> bs, fetched |-> TRUE,
     book_data |-> None, saved |-> TRUE]

\* Library.add_book_by_isbn, the exit taken when the lookup returned None
LookupFailed(bs) ==
    [ret |-> FALSE, books |-> bs, fetched |-> TRUE,
     book_data |-> None, saved |-> FALSE]

\* Library.add_book_by_isbn: the value returned, the catalog left behind,
\* whether fetch_book_from_api was called and with what result, and whether
\* save_books ran
add_book_by_isbn(bs, isbn, book_type, kwargs, response) ==
    LET clean_isbn == normalize_isbn(isbn)
        fetched    == fetch_book_from_api(clean_isbn, response)
        book_data  == fetched[2]
        book == IF Lower(book_type) = PyStr("ebook")
                THEN EBook(book_data.title, book_data.author, book_data.isbn,
                           book_data.publication_year,
                           KwargsGet(kwargs, "file_format"))
                ELSE IF Lower(book_type) = PyStr("audiobook")
                THEN AudioBook(book_data.title, book_data.author, book_data.isbn,
                               book_data.publication_year,
                               KwargsGet(kwargs, "duration_min"))
                ELSE Book(book_data.title, book_data.author, book_data.isbn,
                          book_data.publication_year)
    IN  IF PyLen(clean_isbn) \notin IsbnLengths
        THEN [ret |-> FALSE, books |-> bs, fetched |-> FALSE,
              book_data |-> None, saved |-> FALSE]
        ELSE IF Found(bs, clean_isbn)
        THEN [ret |-> FALSE, books |-> bs, fetched |-> FALSE,
              book_data |-> None, saved |-> FALSE]
        ELSE IF IsNone(fetched)
        THEN LookupFailed(bs)
        ELSE [ret |-> TRUE, books |-> Append(bs, book), fetched |-> TRUE,
              book_data |-> fetched, saved |-> TRUE]

\* remove_book comparing the stored ISBN as written, not normalized
remove_book_raw(bs, isbn) ==
    LET clean_isbn == normalize_isbn(isbn)
    IN  SelectSeq(bs, LAMBDA book : book.isbn # clean_isbn)

\* Library.remove_book: the catalog left behind
remove_book(bs, isbn) ==
    LET clean_isbn == normalize_isbn(isbn)
    IN  SelectSeq(bs, LAMBDA book : normalize_isbn(book.isbn) # clean_isbn)

----------------------------------------------------------------------------
(* The state: books is Library._books, file the JSON file lib_name, last   *)
(* the call that has just completed, with the catalog and file it started  *)
(* from, until the caller takes the result and is ready for its next call  *)

Ready == last.op \in {"init", "idle"}

Init ==
    /\ file \in InitialFiles
    /\ books = load_books(file)
    /\ last = [op |-> "init"]

AddBookByIsbn(isbn, call, response) ==
    /\ Ready
    /\ \E r \in {add_book_by_isbn(books, isbn, call.book_type, call.kwargs, response)} :
        /\ Len(r.books) <= MaxBooks
        /\ books' = r.books
        /\ file' = IF r.saved THEN save_books(r.books) ELSE file
        /\ last' = [op |-> "add_book_by_isbn", isbn |-> isbn,
                    book_type |-> call.book_type, kwargs |-> call.kwargs,
                    fetched |-> r.fetched, book_data |-> r.book_data,
                    ret |-> r.ret, before |-> books, file_before |-> file]

AddBook(book) ==
    /\ Ready
    /\ Len(books) < MaxBooks
    /\ books' = Append(books, book)
    /\ file' = save_books(books')
    /\ last' = [op |-> "add_book", book |-> book,
                before |-> books, file_before |-> file]

RemoveBook(isbn) ==
    /\ Ready
    /\ books' = remove_book(books, isbn)
    /\ file' = save_books(books')
    /\ last' = [op |-> "remove_book", isbn |-> isbn,
                before |-> books, file_before |-> file]

SaveBooks ==
    /\ Ready
    /\ file' = save_books(books)
    /\ books' = books
    /\ last' = [op |-> "save_books", before |-> books, file_before |-> file]

LoadBooks ==
    /\ Ready
    /\ books' = load_books(file)
    /\ file' = file
    /\ last' = [op |-> "load_books", before |-> books, file_before |-> file]

\* the caller's loop takes the result and goes on to its next choice
Return ==
    /\ ~Ready
    /\ last' = [op |-> "idle"]
    /\ UNCHANGED <<books, file>>

Next ==
    \/ \E isbn \in IsbnInputs, call \in KindCalls :
         \E response \in Responses(normalize_isbn(isbn)) :
           AddBookByIsbn(isbn, call, response)
    \/ \E book \in BookInputs : AddBook(book)
    \/ \E isbn \in IsbnInputs : RemoveBook(isbn)
    \/ SaveBooks
    \/ LoadBooks
    \/ Return

Spec == Init /\ [][Next]_vars

----------------------------------------------------------------------------
(* library.py: the request and response models; api.py: the handlers.      *)
(* A handler ends with the status of an HTTPException it raises, with 200   *)
(* when it returns, with 422 when the request model rejects the body, and  *)
(* with 500 when another exception leaves the handler.                      *)

MinIsbnField == 10

MaxIsbnField == 13

\* BookRequest: the length limits on the isbn field as sent
BookRequestValid(isbn) ==
    PyLen(isbn) >= MinIsbnField /\ PyLen(isbn) <= MaxIsbnField

\* BookResponse: str, str, str, int, str
BookResponseValid(book) ==
    /\ book.title[1] = "str"
    /\ book.author[1] = "str"
    /\ book.isbn[1] = "str"
    /\ book.publication_year[1] = "int"
    /\ book.book_type[1] = "str"

\* the fields BookResponse carries
BookResponse(book) ==
    [title |-> book.title, author |-> book.author, isbn |-> book.isbn,
     publication_year |-> book.publication_year, book_type |-> book.book_type]

OK == 200

BAD_REQUEST == 400

NOT_FOUND == 404

UNPROCESSABLE_ENTITY == 422

INTERNAL_SERVER_ERROR == 500

\* api.py: add_book (POST /books): the status, the catalog left behind,
\* whether fetch_book_from_api was called, and whether save_books ran
post_books(bs, isbn, response) ==
    LET clean_isbn == normalize_isbn(isbn)
        r          == add_book_by_isbn(bs, isbn, PyStr("Book"), NoKwargs, response)
        added_book == r.books[FindIndex(r.books, clean_isbn)]
        unchanged(status) ==
            [status |-> status, books |-> bs, fetched |-> FALSE, saved |-> FALSE]
    IN  IF ~BookRequestValid(isbn) THEN unchanged(UNPROCESSABLE_ENTITY)
        ELSE IF PyLen(clean_isbn) \notin IsbnLengths THEN unchanged(UNPROCESSABLE_ENTITY)
        ELSE IF Found(bs, clean_isbn) THEN unchanged(BAD_REQUEST)
        ELSE IF ~r.ret
        THEN [status |-> NOT_FOUND, books |-> r.books, fetched |-> r.fetched,
              saved |-> r.saved]
        ELSE [status |-> IF BookResponseValid(added_book)
                         THEN OK ELSE INTERNAL_SERVER_ERROR,
              books |-> r.books, fetched |-> r.fetched, saved |-> r.saved]

\* api.py: get_books (GET /books)
get_books(bs) ==
    IF \A i \in 1..Len(bs) : BookResponseValid(bs[i])
    THEN [status |-> OK, body |-> [i \in 1..Len(bs) |-> BookResponse(bs[i])]]
    ELSE [status |-> INTERNAL_SERVER_ERROR, body |-> <<>>]

\* api.py: get_book (GET /books/{isbn})
get_book(bs, isbn) ==
    LET clean_isbn == normalize_isbn(isbn)
        book       == bs[FindIndex(bs, clean_isbn)]
    IN  IF ~Found(bs, clean_isbn) THEN [status |-> NOT_FOUND, body |-> <<>>]
        ELSE IF BookResponseValid(book)
        THEN [status |-> OK, body |-> <<BookResponse(book)>>]
        ELSE [status |-> INTERNAL_SERVER_ERROR, body |-> <<>>]

\* api.py: delete_book (DELETE /books/{isbn})
delete_book(bs, isbn) ==
    LET clean_isbn == normalize_isbn(isbn)
    IN  IF ~Found(bs, clean_isbn)
        THEN [status |-> NOT_FOUND, books |-> bs, saved |-> FALSE]
        ELSE [status |-> OK, books |-> remove_book(bs, clean_isbn), saved |-> TRUE]

\* the request answered just before the one being handled, if any
Previous ==
    IF last.op = "idle" /\ "prev" \in DOMAIN last THEN last.prev
    ELSE [op |-> "none"]

\* the request being answered: its route, its ISBN if it has one, its status
Answered ==
    [op |-> last.op, status |-> last.status,
     isbn |-> IF "isbn" \in DOMAIN last THEN last.isbn ELSE None]

Root ==
    /\ Ready
    /\ last' = [op |-> "GET /", status |-> OK,
                before |-> books, file_before |-> file]
    /\ UNCHANGED <<books, file>>

GetBooks ==
    /\ Ready
    /\ \E r \in {get_books(books)} :
          last' = [op |-> "GET /books", status |-> r.status, body |-> r.body,
                   before |-> books, file_before |-> file]
    /\ UNCHANGED <<books, file>>

\* lookup is what fetch_book_from_api answers, or would answer, for the
\* request's ISBN
PostBooks(isbn, response) ==
    /\ Ready
    /\ \E r \in {post_books(books, isbn, response)} :
          /\ Len(r.books) <= MaxBooks
          /\ books' = r.books
          /\ file' = IF r.saved THEN save_books(r.books) ELSE file
          /\ last' = [op |-> "POST /books", isbn |-> isbn, status |-> r.status,
                      fetched |-> r.fetched,
                      lookup |-> fetch_book_from_api(normalize_isbn(isbn), response),
                      prev |-> Previous,
                      before |-> books, file_before |-> file]

GetBook(isbn) ==
    /\ Ready
    /\ \E r \in {get_book(books, isbn)} :
          last' = [op |-> "GET /books/{isbn}", isbn |-> isbn, status |-> r.status,
                   body |-> r.body, prev |-> Previous,
                   before |-> books, file_before |-> file]
    /\ UNCHANGED <<books, file>>

DeleteBook(isbn) ==
    /\ Ready
    /\ \E r \in {delete_book(books, isbn)} :
          /\ books' = r.books
          /\ file' = IF r.saved THEN save_books(r.books) ELSE file
          /\ last' = [op |-> "DELETE /books/{isbn}", isbn |-> isbn,
                      status |-> r.status, before |-> books, file_before |-> file]

\* the response is sent and the server waits for the next request
Respond ==
    /\ ~Ready
    /\ last' = [op |-> "idle", prev |-> Answered]
    /\ UNCHANGED <<books, file>>

NextApi ==
    \/ Root
    \/ GetBooks
    \/ \E isbn \in RequestIsbns :
         \E response \in Responses(normalize_isbn(isbn)) : PostBooks(isbn, response)
    \/ \E isbn \in RequestIsbns : GetBook(isbn)
    \/ \E isbn \in RequestIsbns : DeleteBook(isbn)
    \/ Respond

SpecApi == Init /\ [][NextApi]_vars

----------------------------------------------------------------------------
(* Properties *)

\* two ISBN strings with the same normalized form
SameIsbn(a, b) == normalize_isbn(a) = normalize_isbn(b)

\* some record of the catalog bs has the normalized ISBN of isbn
Stored(bs, isbn) == \E i \in 1..Len(bs) : SameIsbn(bs[i].isbn, isbn)

NoDuplicates(bs) ==
    \A i, j \in 1..Len(bs) : i # j => ~SameIsbn(bs[i].isbn, bs[j].isbn)

\* no two items of the file f have the same normalized ISBN
NoDuplicateItems(f) ==
    \A i, j \in 1..Len(f.data) :
        i # j => ~SameIsbn(PyStr(f.data[i].isbn[2]), PyStr(f.data[j].isbn[2]))

\* C1 as stated: in every state reachable by load_books, add_book,
\* add_book_by_isbn and remove_book, no two records of the catalog have the
\* same normalized ISBN.
C1_NoDuplicateIsbn == NoDuplicates(books)

\* C1, amended: construction on a missing or duplicate-free file gives a
\* catalog without two records of the same normalized ISBN, and a catalog
\* without such records stays so under every add_book_by_isbn call, every
\* remove_book call, and every add_book call for a book whose normalized ISBN
\* is not yet stored.
C1_UniquenessPreserved ==
    /\ (last.op = "init" /\ NoDuplicateItems(file)) => NoDuplicates(books)
    /\ (last.op \in {"add_book_by_isbn", "remove_book"} /\ NoDuplicates(last.before))
           => NoDuplicates(books)
    /\ (last.op = "add_book" /\ NoDuplicates(last.before)
           /\ ~Stored(last.before, last.book.isbn))
           => NoDuplicates(books)

\* a second add_book_by_isbn for a stored ISBN written differently was
\* refused in a catalog that holds two records
C1_Witness ==
    /\ last.op = "add_book_by_isbn"
    /\ Len(last.before) = 2
    /\ NoDuplicates(last.before)
    /\ \E i \in 1..Len(last.before) :
          /\ SameIsbn(last.before[i].isbn, last.isbn)
          /\ last.before[i].isbn # normalize_isbn(last.isbn)
    /\ NoDuplicates(books)

\* C2: add_book_by_isbn with an ISBN whose normalized form is that of a
\* stored record returns failure, does not call the metadata lookup, and
\* leaves the catalog as it was.
C2_DuplicateRejected ==
    (last.op = "add_book_by_isbn" /\ Stored(last.before, last.isbn))
        => /\ last.ret = FALSE
           /\ last.fetched = FALSE
           /\ books = last.before
           /\ Len(books) = Len(last.before)

\* the stored ISBN and the argument are written differently and the
\* argument has a valid length
C2_Witness ==
    /\ last.op = "add_book_by_isbn"
    /\ PyLen(normalize_isbn(last.isbn)) \in {10, 13}
    /\ \E i \in 1..Len(last.before) :
          /\ SameIsbn(last.before[i].isbn, last.isbn)
          /\ last.before[i].isbn # last.isbn
          /\ last.before[i].isbn # normalize_isbn(last.isbn)
    /\ last.ret = FALSE

\* C3: add_book_by_isbn with an ISBN whose normalized length is neither 10
\* nor 13 returns failure without calling the metadata lookup and without
\* changing the catalog or the file.
C3_InvalidLengthRejected ==
    (last.op = "add_book_by_isbn" /\ PyLen(normalize_isbn(last.isbn)) \notin {10, 13})
        => /\ last.ret = FALSE
           /\ last.fetched = FALSE
           /\ books = last.before
           /\ file = last.file_before

\* a 7-character ISBN was refused while the file did not exist yet
C3_Witness ==
    /\ last.op = "add_book_by_isbn"
    /\ PyLen(normalize_isbn(last.isbn)) = 7
    /\ last.ret = FALSE
    /\ ~last.file_before.exists

\* C4: when the metadata lookup returns None, add_book_by_isbn returns
\* failure and neither the catalog nor the file is modified.
C4_LookupFailureLeavesState ==
    (last.op = "add_book_by_isbn" /\ last.fetched /\ IsNone(last.book_data))
        => /\ last.ret = FALSE
           /\ books = last.before
           /\ file = last.file_before

\* the lookup failed for a valid ISBN that is not stored, while the file on
\* disk differs from what save_books would write
C4_Witness ==
    /\ last.op = "add_book_by_isbn"
    /\ last.fetched
    /\ IsNone(last.book_data)
    /\ PyLen(normalize_isbn(last.isbn)) \in {10, 13}
    /\ ~Stored(last.before, last.isbn)
    /\ last.file_before # save_books(last.before)
    /\ last.ret = FALSE

\* the variant a kind argument selects, by its name in any letter case
KindVariant(book_type) ==
    IF book_type \in {PyStr("ebook"), PyStr("EBook")} THEN PyStr("EBook")
    ELSE IF book_type \in {PyStr("audiobook"), PyStr("AudioBook")} THEN PyStr("AudioBook")
    ELSE PyStr("Book")

\* the call names a kind whose own field is missing from the arguments
KindFieldMissing(call) ==
    \/ KindVariant(call.book_type) = PyStr("EBook")
         /\ "file_format" \notin DOMAIN call.kwargs
    \/ KindVariant(call.book_type) = PyStr("AudioBook")
         /\ "duration_min" \notin DOMAIN call.kwargs

\* C5: add_book_by_isbn with kind EBook and no file_format, or with kind
\* AudioBook and no duration_min, returns failure and adds no record.
C5_MissingKindFieldRejected ==
    (last.op = "add_book_by_isbn" /\ KindFieldMissing(last))
        => /\ last.ret = FALSE
           /\ books = last.before

\* C6: when add_book_by_isbn(x, kind, ...) returns success the catalog is the
\* previous one with one record appended; the record carries normalize(x),
\* the title, author and year the lookup returned and the variant the kind
\* selects, and find_book(x) returns it.
C6_SuccessAppendsRecord ==
    (last.op = "add_book_by_isbn" /\ last.ret = TRUE)
        => /\ Len(books) = Len(last.before) + 1
           /\ SubSeq(books, 1, Len(last.before)) = last.before
           /\ LET book == books[Len(books)]
                  data == last.book_data[2]
              IN  /\ book.isbn = normalize_isbn(last.isbn)
                  /\ book.title = data.title
                  /\ book.author = data.author
                  /\ book.publication_year = data.publication_year
                  /\ book.book_type = KindVariant(last.book_type)
                  /\ FindIndex(books, last.isbn) = Len(books)
                  /\ find_book(books, last.isbn) = PyObject(book)

\* an audiobook was added under a formatted ISBN, after the records already
\* stored, with the kind written in lower case
C6_Witness ==
    /\ last.op = "add_book_by_isbn"
    /\ last.ret = TRUE
    /\ last.isbn # normalize_isbn(last.isbn)
    /\ Len(last.before) >= 1
    /\ last.book_type = PyStr("audiobook")
    /\ books[Len(books)].book_type = PyStr("AudioBook")
    /\ books[Len(books)].duration_min = PyInt(90)

\* the ISBN strings find_book is queried with
Queries == IsbnInputs \cup RequestIsbns \cup {book.isbn : book \in BookInputs}

\* C7 as stated: after add_book(b), in any catalog, find_book(y) returns the
\* book b for every y whose normalized form is that of b.isbn.
C7_FindReturnsAdded ==
    last.op = "add_book"
        => \A y \in Queries :
              SameIsbn(y, last.book.isbn) => FindIndex(books, y) = Len(books)

\* C7, amended: after add_book(b) in a catalog that held no record with the
\* normalized ISBN of b.isbn, find_book(y) returns the book b, the record
\* just appended, for every y whose normalized form is that of b.isbn.
C7_FindReturnsAddedWhenNew ==
    (last.op = "add_book" /\ ~Stored(last.before, last.book.isbn))
        => /\ books = Append(last.before, last.book)
           /\ \A y \in Queries :
                 SameIsbn(y, last.book.isbn)
                     => /\ FindIndex(books, y) = Len(books)
                        /\ find_book(books, y) = PyObject(last.book)

\* a book with a hyphenated ISBN was added behind another record, and
\* differently written queries for it exist
C7_Witness ==
    /\ last.op = "add_book"
    /\ ~Stored(last.before, last.book.isbn)
    /\ Len(last.before) >= 1
    /\ last.book.isbn # normalize_isbn(last.book.isbn)
    /\ \E y \in Queries :
          /\ SameIsbn(y, last.book.isbn)
          /\ y # last.book.isbn
          /\ y # normalize_isbn(last.book.isbn)
          /\ FindIndex(books, y) = Len(books)

\* the positions of bs whose record does not have the normalized ISBN of isbn
Kept(bs, isbn) == {i \in 1..Len(bs) : ~SameIsbn(bs[i].isbn, isbn)}

\* the k-th smallest element of the set of positions
Nth(positions, k) ==
    CHOOSE i \in positions : Cardinality({j \in positions : j <= i}) = k

\* C8: remove_book(x) removes every record whose normalized ISBN is
\* normalize(x) and no other, keeps the order of the rest, and afterwards
\* find_book(y) returns None for every y with the normalized form of x.
C8_RemoveRemovesAllMatches ==
    last.op = "remove_book"
        => /\ Len(books) = Cardinality(Kept(last.before, last.isbn))
           /\ \A k \in 1..Len(books) :
                 books[k] = last.before[Nth(Kept(last.before, last.isbn), k)]
           /\ \A y \in Queries :
                 SameIsbn(y, last.isbn)
                     => /\ FindIndex(books, y) = 0
                        /\ find_book(books, y) = None

\* two records stored under a formatted ISBN were removed by one call with
\* another formatting, and a record in front of or behind them was kept
C8_Witness ==
    /\ last.op = "remove_book"
    /\ Len(last.before) - Len(books) = 2
    /\ Len(books) = 1
    /\ \E i \in 1..Len(last.before) :
          /\ SameIsbn(last.before[i].isbn, last.isbn)
          /\ last.before[i].isbn # last.isbn
          /\ last.before[i].isbn # normalize_isbn(last.isbn)

\* the kinds of the records of a catalog
BookTypes(bs) == {bs[i].book_type : i \in 1..Len(bs)}

\* C9: save_books followed by load_books on the same file gives a catalog of
\* the same length and order whose records have the same fields with the
\* same values, file_format, duration_min and book_type included.
C9_SaveLoadRoundTrip ==
    (last.op = "load_books" /\ last.file_before = save_books(last.before))
        => /\ Len(books) = Len(last.before)
           /\ \A i \in 1..Len(books) :
                 /\ DOMAIN books[i] = DOMAIN last.before[i]
                 /\ \A k \in DOMAIN books[i] : books[i][k] = last.before[i][k]

\* a catalog of a Book, an EBook and an AudioBook, one of them with a None
\* field, was loaded back from the file save_books wrote
C9_Witness ==
    /\ last.op = "load_books"
    /\ last.file_before = save_books(last.before)
    /\ BookTypes(last.before) = {PyStr("Book"), PyStr("EBook"), PyStr("AudioBook")}
    /\ \E i \in 1..Len(last.before) :
          \E k \in DOMAIN last.before[i] : IsNone(last.before[i][k])
    /\ Len(books) = 3

\* C10: POST /books answers 422 exactly when the normalized request ISBN is
\* not 10 or 13 characters long; a request ISBN of normalized length 10 or 13,
\* in any formatting, is answered 400 if already stored, 404 if the lookup
\* returns None, and 200 otherwise.
C10_PostStatus ==
    last.op = "POST /books"
        => /\ last.status = 422 <=> PyLen(normalize_isbn(last.isbn)) \notin {10, 13}
           /\ PyLen(normalize_isbn(last.isbn)) \in {10, 13}
                 => last.status = IF Stored(last.before, last.isbn) THEN 400
                                  ELSE IF IsNone(last.lookup) THEN 404
                                  ELSE 200

\* C11: repeating a POST /books that returned 200, with nothing in between,
\* returns 400 without calling the metadata lookup and leaves the catalog
\* with the same records; and a POST that does not return 200 never changes
\* the catalog.
C11_RepeatedPostRejected ==
    last.op = "POST /books"
        => /\ (last.prev.op = "POST /books" /\ last.prev.isbn = last.isbn
                  /\ last.prev.status = 200)
                 => /\ last.status = 400
                    /\ last.fetched = FALSE
                    /\ books = last.before
                    /\ Len(books) = Len(last.before)
           /\ last.status # 200 => books = last.before

\* C12: DELETE /books/{isbn} answers 404 and changes neither the catalog nor
\* the file when no stored record has the normalized path ISBN; when a record
\* matches it answers 200, and a following GET /books/{isbn} with any
\* formatting of that ISBN answers 404.
C12_DeleteThenGetNotFound ==
    /\ last.op = "DELETE /books/{isbn}"
          => /\ ~Stored(last.before, last.isbn)
                   => /\ last.status = 404
                      /\ books = last.before
                      /\ file = last.file_before
             /\ Stored(last.before, last.isbn)
                   => /\ last.status = 200
                      /\ \A y \in Queries :
                            SameIsbn(y, last.isbn) => get_book(books, y).status = 404
    /\ (last.op = "GET /books/{isbn}" /\ last.prev.op = "DELETE /books/{isbn}"
           /\ last.prev.status = 200 /\ SameIsbn(last.prev.isbn, last.isbn))
          => last.status = 404

\* a record was deleted under one formatting of its ISBN and the GET that
\* followed asked for it under another
C12_Witness ==
    /\ last.op = "GET /books/{isbn}"
    /\ last.prev.op = "DELETE /books/{isbn}"
    /\ last.prev.status = 200
    /\ SameIsbn(last.prev.isbn, last.isbn)
    /\ last.prev.isbn # last.isbn
    /\ last.isbn # normalize_isbn(last.isbn)
    /\ last.status = 404

\* the routes of the HTTP surface
Routes ==
    {"GET /", "GET /books", "POST /books", "GET /books/{isbn}",
     "DELETE /books/{isbn}"}

\* C13: every request to GET /, GET /books, POST /books, GET /books/{isbn}
\* and DELETE /books/{isbn}, in any reachable catalog state and for any
\* answer of the metadata lookup, completes with status 200, 400, 404 or 422;
\* none ends in an unhandled fault.
C13_NoUnhandledFault ==
    last.op \in Routes => last.status \in {200, 400, 404, 422}

\* the JSON object item holds the record book: every value it has is the
\* record's, and it lacks nothing but, for a Book, the book_type
ItemHolds(item, book) ==
    /\ \A k \in DOMAIN item : k \in DOMAIN book /\ JsonLoad(item[k]) = book[k]
    /\ \A k \in DOMAIN book \ DOMAIN item :
          k = "book_type" /\ book.book_type = PyStr("Book")

\* the file f holds the catalog bs, record by record in the same order; a
\* missing file holds the empty catalog
FileHolds(f, bs) ==
    IF f.exists
    THEN /\ Len(f.data) = Len(bs)
         /\ \A i \in 1..Len(bs) : ItemHolds(f.data[i], bs[i])
    ELSE bs = <<>>

\* C14: after construction and after every completed add_book, remove_book
\* or add_book_by_isbn call, successful or not, the file holds exactly the
\* in-memory sequence of records in the same order (a missing file counting
\* as the empty catalog); add_book and remove_book rewrite the file even
\* when remove_book matched nothing.
C14_FileInSync ==
    last.op \in {"init", "add_book", "remove_book", "add_book_by_isbn"}
        => /\ FileHolds(file, books)
           /\ last.op \in {"add_book", "remove_book"}
                 => file.exists /\ Len(file.data) = Len(books)
           /\ (last.op = "add_book_by_isbn" /\ ~last.ret) => file = last.file_before

\* a remove_book that matched nothing wrote the file that did not exist
C14_Witness ==
    /\ last.op = "remove_book"
    /\ books = last.before
    /\ ~last.file_before.exists
    /\ file.exists
    /\ FileHolds(file, books)

====
